---- MODULE Spec2Model ----
(***************************************************************************)
(* Call lifecycle and upsell ledger of the Cultivasia CRM.                 *)
(*                                                                         *)
(* The model has two parts.                                                *)
(*  - The call-list page (client/src/pages/call-list.tsx) and the customer *)
(*    modal (client/src/components/customer-modal.tsx) of every logged-in  *)
(*    user, working on the transaction records held by the server.  Each   *)
(*    user has its own React state and its own cached copy of the record   *)
(*    list (the react-query cache), refreshed by refetches.  Spec explores *)
(*    one agent at work with every operation and input; SpecAgents         *)
(*    explores the agents working at the same time, with the clock stopped *)
(*    and the inputs fixed.                                                *)
(*  - The server's routes on the calls table (server/routes.ts) and its    *)
(*    storage: SpecIntake explores manual creation, update and assignment  *)
(*    of calls, SpecImport the CSV import under changes of the agent list, *)
(*    SpecStats the dashboard analytics over populated tables.             *)
(* Times are whole seconds, dates whole hours.  Prices are whole pesos.    *)
(***************************************************************************)
EXTENDS Integers, Sequences, FiniteSets, Bags, TLC

VARIABLES
    txn,               \* server: transaction records, by id
    served,            \* server: number of update requests handled so far
    now,               \* wall clock, seconds
    cache,             \* per user: `calls`, the cached result of the list query
    selectedCall,      \* per user: CallList state, the record copy given to the modal
                       \* (the fields of it that the modal's logic reads)
    showCustomerModal, \* per user: CallList state
    callTimer,         \* per user: CallList state, seconds
    isTimerRunning,    \* per user: CallList state
    callPhase,         \* per user: CustomerModal state, "initial" or "answered"
    showRemarksInput,  \* per user: CustomerModal state
    remarksAction,     \* per user: CustomerModal state
    capturedDuration,  \* per user: CustomerModal state, None or <<seconds>>
    calls,             \* server: rows of the calls table, in insertion order
    users,             \* server: rows of the users table, by id
    transactions,      \* server: rows of the transactions table, a bag
    response,          \* server: status code of the last intake request
    callHistory,       \* server: rows of the call_history table, in insertion order
    productRows,       \* server: rows of the products table, by SKU
    loggedIn,          \* per client: the user of its last successful login
    inflight           \* server: per request in progress, its position and locals

vars == <<txn, served, now, cache, selectedCall, showCustomerModal, callTimer,
          isTimerRunning, callPhase, showRemarksInput, remarksAction,
          capturedDuration, calls, users, transactions, response, callHistory,
          productRows, loggedIn, inflight>>

clientVars == <<cache, selectedCall, showCustomerModal, callTimer, isTimerRunning,
                callPhase, showRemarksInput, remarksAction, capturedDuration>>

lifecycleVars == <<txn, served, now, cache, selectedCall, showCustomerModal, callTimer,
                   isTimerRunning, callPhase, showRemarksInput, remarksAction,
                   capturedDuration>>

\* The state that only the history, product and login routes and the requests
\* that run step by step work on.
adminVars == <<callHistory, productRows, loggedIn, inflight>>

intakeVars == <<calls, users, transactions, response, adminVars>>

(***************************************************************************)
(* Bounds of the model.                                                    *)
(***************************************************************************)
MaxTime == 1
MaxRequests == 4
MaxAgentRequests == 3
MaxCalls == 3
MaxRows == 2
MaxStatCalls == 10
MaxTransactions == 3

(***************************************************************************)
(* Values.                                                                 *)
(***************************************************************************)
\* SQL NULL / JavaScript null of a text column, and of a numeric or timestamp
\* column (a present value v of the latter is <<v>>).
NULL == "null"
None == <<>>
Some(v) == <<v>>

Users == {"u1", "u2"}
\* The browsers that talk to the server.
Clients == {"c1", "c2"}
\* The agent of the single-agent specification.
Solo == {"u1"}
TxnIds == {"t1"}

\* shared/schema.ts: the values of the call_status column.
callStatusEnum == {"new", "in_progress", "called", "unattended", "completed"}

\* The product catalog (GET /api/products, ordered by SKU): SKU and price.
products == << [sku |-> "AP1", price |-> 500], [sku |-> "AP2", price |-> 800] >>

\* What an agent can type into the manual order form.
ManualSkus == {"M1"}
ManualPrices == {300}

\* What an agent can type into the call notes.
RemarkTexts == {"", "note"}

\* JavaScript truthiness of a text value and of a numeric/timestamp value
\* (decimal columns arrive as non-empty strings, so every present price is truthy).
Truthy(s) == s /= NULL /\ s /= ""
Present(o) == o /= None

\* A row of the transactions table as inserted: status and isUpsell take the
\* column defaults, the call and upsell columns are NULL.
NewTransaction(sku, price) ==
    [ status |-> "new", agentId |-> NULL,
      callStartedAt |-> None, callEndedAt |-> None, callDuration |-> None,
      callRemarks |-> NULL,
      orderSku |-> sku, currentPrice |-> price,
      originalOrderSku |-> NULL, originalPrice |-> None,
      revenue |-> None, isUpsell |-> FALSE ]

\* The orders a transaction can start with: a catalog product, or no order.
InitialOrders == { [sku |-> "AP1", price |-> 500], [sku |-> "", price |-> 0] }

(***************************************************************************)
(* Server: update of a transaction record.                                 *)
(***************************************************************************)
NoFields == [f \in {} |-> NULL]

\* Row update: the named columns take the given values, the others keep theirs.
Merge(row, updates) ==
    [f \in DOMAIN row |-> IF f \in DOMAIN updates THEN updates[f] ELSE row[f]]

\* Validation of an update body: a status outside the enum is a ZodError.
ValidUpdate(updates) ==
    "status" \in DOMAIN updates => updates["status"] \in callStatusEnum

\* PUT /api/transactions/:id: 404 for an unknown id, 400 for an invalid body,
\* otherwise the row is updated.  The result is the table after the request.
updateTransaction(table, id, updates) ==
    IF id \notin DOMAIN table THEN table
    ELSE IF ~ValidUpdate(updates) THEN table
    ELSE [table EXCEPT ![id] = Merge(@, updates)]

(***************************************************************************)
(* Client: the call-list page.                                             *)
(***************************************************************************)
NoCall == [id |-> "none"]

\* call?.status of the modal's `call` prop.
StatusOf(call) == IF call = NoCall THEN "undefined" ELSE call.status

\* Variant of the action cell that renders the Dial button on every row.
DialRenderedAlways(call) == TRUE

\* The action cell of a call-list row: a status badge for called, completed,
\* unattended and callback rows, the Dial button for the others.
DialRendered(call) ==
    ~(call.status = "called" \/ call.status = "completed"
      \/ call.status = "unattended" \/ call.status = "callback")

\* remarks || null
RemarksOrNull(remarks) == IF remarks = "" THEN NULL ELSE remarks

\* CustomerModal effect on [call?.status]: runs when the status of the prop changes.
SyncCallPhase(u, call) ==
    IF StatusOf(call) = StatusOf(selectedCall[u]) THEN callPhase[u]
    ELSE IF call.status = "in_progress" THEN "answered" ELSE "initial"

handleCallClick(u, id) ==
    LET call == cache[u][id] IN
    /\ ~showCustomerModal[u]
    /\ DialRendered(call)
    /\ selectedCall' = [selectedCall EXCEPT ![u] =
                           [id |-> id, status |-> call.status,
                            orderSku |-> call.orderSku]]
    /\ IF Present(call.callDuration) /\ call.callDuration[1] > 0
       THEN /\ callTimer' = [callTimer EXCEPT ![u] = call.callDuration[1]]
            /\ isTimerRunning' = [isTimerRunning EXCEPT ![u] = FALSE]
       ELSE IF call.status = "in_progress" /\ Present(call.callStartedAt)
       THEN /\ callTimer' = [callTimer EXCEPT ![u] = now - call.callStartedAt[1]]
            /\ isTimerRunning' = [isTimerRunning EXCEPT ![u] = TRUE]
       ELSE /\ callTimer' = [callTimer EXCEPT ![u] = 0]
            /\ isTimerRunning' = [isTimerRunning EXCEPT ![u] = FALSE]
    /\ showCustomerModal' = [showCustomerModal EXCEPT ![u] = TRUE]
    /\ callPhase' = [callPhase EXCEPT ![u] = SyncCallPhase(u, call)]
    /\ UNCHANGED <<txn, served, now, cache, showRemarksInput, remarksAction,
                   capturedDuration>>

\* The modal's onClose prop (the dialog's close button).
onClose(u) ==
    /\ showCustomerModal[u]
    /\ isTimerRunning' = [isTimerRunning EXCEPT ![u] = FALSE]
    /\ showCustomerModal' = [showCustomerModal EXCEPT ![u] = FALSE]
    /\ UNCHANGED <<txn, served, now, cache, selectedCall, callTimer, callPhase,
                   showRemarksInput, remarksAction, capturedDuration>>

\* Variant of handleAnswered that does not assign the agent.
AnsweredUpdatesNoAgent(u) ==
    [status |-> "in_progress", callStartedAt |-> Some(now)]

\* The update handleAnswered sends.
AnsweredUpdates(u) ==
    [status |-> "in_progress", callStartedAt |-> Some(now), agentId |-> u]

\* Use provided duration or current timer value (capturedDuration || undefined).
FinalDuration(u) ==
    IF Present(capturedDuration[u]) /\ capturedDuration[u][1] /= 0
    THEN capturedDuration[u][1]
    ELSE callTimer[u]

\* The order columns an exit handler copies from a record `call`.
OrderFields(call) ==
    [ originalOrderSku |-> call.originalOrderSku,
      originalPrice |-> call.originalPrice,
      orderSku |-> call.orderSku,
      currentPrice |-> call.currentPrice,
      revenue |-> call.revenue,
      isUpsell |-> call.isUpsell ]

CompletionFields(status, remarks, duration) ==
    [ status |-> status, callEndedAt |-> Some(now),
      callDuration |-> Some(duration), callRemarks |-> RemarksOrNull(remarks) ]

\* The update handleMarkUnattended sends; `call` is the cached copy of the record.
MarkUnattendedUpdates(call, remarks, duration) ==
    (IF Truthy(call.originalOrderSku) THEN OrderFields(call) ELSE NoFields)
    @@ CompletionFields("unattended", remarks, duration)

\* The update handleMarkCallback sends; `call` is the cached copy of the record.
MarkCallbackUpdates(call, remarks, duration) ==
    (IF Truthy(call.originalOrderSku) THEN OrderFields(call) ELSE NoFields)
    @@ CompletionFields("callback", remarks, duration)

\* handleEndCall: is there any order placed on the freshly fetched record?
hasOrder(freshCall) == Truthy(freshCall.orderSku) \/ freshCall.isUpsell

\* Variant of handleEndCall that marks every ended call as called, as the
\* earlier version of the page did.
EndCallUpdatesAlwaysCalled(freshCall, remarks, duration) ==
    CompletionFields("called", remarks, duration)

\* The update handleEndCall sends after a successful fetch of the record.
EndCallUpdates(freshCall, remarks, duration) ==
    (IF hasOrder(freshCall)
     THEN [OrderFields(freshCall) EXCEPT !.isUpsell = TRUE]
     ELSE NoFields)
    @@ CompletionFields(IF hasOrder(freshCall) THEN "completed" ELSE "called",
                        remarks, duration)

\* The update handleEndCall sends when the fetch fails.
EndCallFallbackUpdates(remarks, duration) ==
    CompletionFields("called", remarks, duration)

\* Variant of handleAcceptUpsell that completes the call with the order, as the
\* earlier version of the page did.
UpsellUpdatesCompleted(call, newProductSku, finalPrice) ==
    [ originalOrderSku |-> call.orderSku,
      originalPrice |-> Some(call.currentPrice),
      orderSku |-> newProductSku,
      currentPrice |-> finalPrice,
      revenue |-> Some(finalPrice - call.currentPrice),
      isUpsell |-> TRUE,
      status |-> "completed" ]

\* The update handleAcceptUpsell sends; `call` is the cached copy of the record.
UpsellUpdates(call, newProductSku, finalPrice) ==
    LET basePrice == IF Present(call.originalPrice)
                     THEN call.originalPrice[1] ELSE call.currentPrice
    IN [ originalOrderSku |-> IF Truthy(call.originalOrderSku)
                              THEN call.originalOrderSku ELSE call.orderSku,
         originalPrice |-> Some(basePrice),
         orderSku |-> newProductSku,
         currentPrice |-> finalPrice,
         revenue |-> Some(finalPrice - basePrice),
         isUpsell |-> TRUE,
         status |-> "in_progress" ]

(***************************************************************************)
(* Client: the customer modal.                                             *)
(***************************************************************************)
\* Helper to determine if call can still be acted upon.
isCallActionable(call) == call /= NoCall /\ call.status /= "completed"

\* The remarks panel (Save and Cancel), shown once an exit button was pressed.
\* The present modal sets showRemarksInput but renders no panel for it; the
\* panel modelled is that of the version of the modal which renders one.
SaveRemarksRendered(u) == showCustomerModal[u] /\ showRemarksInput[u]

\* The action buttons are rendered in an open dialog on an actionable call,
\* in place of the remarks panel.
ActionsRendered(u) ==
    showCustomerModal[u] /\ ~showRemarksInput[u] /\ isCallActionable(selectedCall[u])

NoProduct == [sku |-> NULL, price |-> 0]

\* products.find(pred): the first product of the catalog with the property.
FirstProduct(S) ==
    IF S = {} THEN NoProduct
    ELSE products[CHOOSE i \in S : \A j \in S : i <= j]

currentProduct(call) ==
    FirstProduct({i \in DOMAIN products : products[i].sku = call.orderSku})

suggestedProduct(call) ==
    FirstProduct({i \in DOMAIN products : products[i].sku /= call.orderSku})

hasCompleteProductData(call) ==
    currentProduct(call) /= NoProduct /\ suggestedProduct(call) /= NoProduct

\* The body of handleAnsweredClick.
AnsweredClick(u) ==
    LET call == selectedCall[u] IN
    /\ callPhase' = [callPhase EXCEPT ![u] = "answered"]
    /\ IF call.status /= "in_progress"
       THEN \* handleAnswered
            /\ served < MaxRequests
            /\ served' = served + 1
            /\ callTimer' = [callTimer EXCEPT ![u] = 0]
            /\ isTimerRunning' = [isTimerRunning EXCEPT ![u] = TRUE]
            /\ txn' = updateTransaction(txn, call.id, AnsweredUpdates(u))
       ELSE UNCHANGED <<callTimer, isTimerRunning, txn, served>>
    /\ UNCHANGED <<now, cache, selectedCall, showCustomerModal, showRemarksInput,
                   remarksAction, capturedDuration>>

handleAnsweredClick(u) ==
    /\ ActionsRendered(u)
    /\ callPhase[u] = "initial"
    /\ AnsweredClick(u)

\* handleEndCallClick, handleCallbackClick, handleUnattendedClick: stop the timer
\* (handleStopTimer), capture its value and ask for the remarks.
ExitClick(u, action) ==
    /\ isTimerRunning' = [isTimerRunning EXCEPT ![u] = FALSE]
    /\ capturedDuration' = [capturedDuration EXCEPT ![u] = Some(callTimer[u])]
    /\ remarksAction' = [remarksAction EXCEPT ![u] = action]
    /\ showRemarksInput' = [showRemarksInput EXCEPT ![u] = TRUE]
    /\ UNCHANGED <<txn, served, now, cache, selectedCall, showCustomerModal, callTimer,
                   callPhase>>

handleEndCallClick(u) ==
    /\ ActionsRendered(u)
    /\ callPhase[u] = "answered"
    /\ ExitClick(u, "end_call")

handleCallbackClick(u) ==
    /\ ActionsRendered(u)
    /\ ExitClick(u, "callback")

handleUnattendedClick(u) ==
    /\ ActionsRendered(u)
    /\ ExitClick(u, "unattended")

\* The Cancel button of the remarks panel.
handleCancelRemarks(u) ==
    /\ SaveRemarksRendered(u)
    /\ showRemarksInput' = [showRemarksInput EXCEPT ![u] = FALSE]
    /\ UNCHANGED <<txn, served, now, cache, selectedCall, showCustomerModal, callTimer,
                   isTimerRunning, callPhase, remarksAction, capturedDuration>>

\* handleEndCall: fetch the fresh record (ok) or fail to (~ok), then update.
handleEndCall(callId, remarks, duration, ok) ==
    updateTransaction(txn, callId,
                      IF ok THEN EndCallUpdates(txn[callId], remarks, duration)
                      ELSE EndCallFallbackUpdates(remarks, duration))

\* handleSaveRemarks: call the handler of the pressed exit button, close the
\* dialog and reset the modal.
handleSaveRemarks(u, remarks, ok) ==
    LET id == selectedCall[u].id
        call == cache[u][id]
        duration == FinalDuration(u)
    IN
    /\ SaveRemarksRendered(u)
    /\ selectedCall[u] /= NoCall
    /\ served < MaxRequests
    /\ served' = served + 1
    /\ txn' = CASE remarksAction[u] = "end_call" ->
                     handleEndCall(id, remarks, duration, ok)
                [] remarksAction[u] = "callback" ->
                     updateTransaction(txn, id,
                                       MarkCallbackUpdates(call, remarks, duration))
                [] remarksAction[u] = "unattended" ->
                     updateTransaction(txn, id,
                                       MarkUnattendedUpdates(call, remarks, duration))
    /\ showCustomerModal' = [showCustomerModal EXCEPT ![u] = FALSE]
    /\ isTimerRunning' = [isTimerRunning EXCEPT ![u] = FALSE]
    /\ showRemarksInput' = [showRemarksInput EXCEPT ![u] = FALSE]
    /\ callPhase' = [callPhase EXCEPT ![u] = "initial"]
    /\ capturedDuration' = [capturedDuration EXCEPT ![u] = None]
    /\ UNCHANGED <<now, cache, selectedCall, callTimer, remarksAction>>

\* handleAcceptUpsell of the page, called by the modal with the record id, the
\* new SKU and the price to charge; the modal stays open.
handleAcceptUpsell(u, newProductSku, finalPrice) ==
    LET id == selectedCall[u].id IN
    /\ served < MaxRequests
    /\ served' = served + 1
    /\ txn' = updateTransaction(txn, id,
                                UpsellUpdates(cache[u][id], newProductSku, finalPrice))
    /\ UNCHANGED <<now, cache, selectedCall, showCustomerModal, callTimer,
                   isTimerRunning, callPhase, showRemarksInput, remarksAction,
                   capturedDuration>>

\* New Order, Accept Suggested: the suggested product at its catalog price.
handleAcceptSuggested(u) ==
    /\ ActionsRendered(u)
    /\ callPhase[u] = "answered"
    /\ hasCompleteProductData(selectedCall[u])
    /\ handleAcceptUpsell(u, suggestedProduct(selectedCall[u]).sku,
                          suggestedProduct(selectedCall[u]).price)

\* New Order, Manual Entry, Create Order: a typed SKU at a typed price.
handleAcceptManual(u, newProductSku, newPrice) ==
    /\ ActionsRendered(u)
    /\ callPhase[u] = "answered"
    /\ newProductSku /= ""
    /\ handleAcceptUpsell(u, newProductSku, newPrice)

\* The list query is refetched (after an invalidation, on focus, on reload).
refetchCalls(u) ==
    /\ cache[u] /= txn
    /\ cache' = [cache EXCEPT ![u] = txn]
    /\ UNCHANGED <<txn, served, now, selectedCall, showCustomerModal, callTimer,
                   isTimerRunning, callPhase, showRemarksInput, remarksAction,
                   capturedDuration>>

\* One second passes: the clock advances and every running timer counts.
Tick ==
    /\ now < MaxTime
    /\ now' = now + 1
    /\ callTimer' = [u \in Users |-> IF isTimerRunning[u]
                                     THEN callTimer[u] + 1 ELSE callTimer[u]]
    /\ UNCHANGED <<txn, served, cache, selectedCall, showCustomerModal, isTimerRunning,
                   callPhase, showRemarksInput, remarksAction, capturedDuration>>

(***************************************************************************)
(* The call lifecycle specification.                                       *)
(***************************************************************************)
InitLifecycle ==
    /\ txn \in [TxnIds -> {NewTransaction(o.sku, o.price) : o \in InitialOrders}]
    /\ served = 0
    /\ now = 0
    /\ cache = [u \in Users |-> txn]
    /\ selectedCall = [u \in Users |-> NoCall]
    /\ showCustomerModal = [u \in Users |-> FALSE]
    /\ callTimer = [u \in Users |-> 0]
    /\ isTimerRunning = [u \in Users |-> FALSE]
    /\ callPhase = [u \in Users |-> "initial"]
    /\ showRemarksInput = [u \in Users |-> FALSE]
    /\ remarksAction = [u \in Users |-> "end_call"]
    /\ capturedDuration = [u \in Users |-> None]

\* The requests that the server works on at the same time.
Requests == {"r1", "r2"}

\* The locals of a request handler between two awaits; Idle when no request
\* is in progress.
Idle ==
    [ pc |-> "idle", callData |-> [phone |-> ""], data |-> <<>>, i |-> 0,
      agents |-> <<>>, agentIndex |-> 0,
      results |-> [success |-> 0, errors |-> <<>>, duplicates |-> 0] ]

\* No history entry, the catalog in the products table, nobody logged in, no
\* request in progress.
InitAdmin ==
    /\ callHistory = <<>>
    /\ productRows = products
    /\ loggedIn = [c \in Clients |-> NULL]
    /\ inflight = [r \in Requests |-> Idle]

Init ==
    /\ InitLifecycle
    /\ InitAdmin
    /\ calls = <<>>
    /\ transactions = EmptyBag
    /\ users = [u \in Users |-> [role |-> "agent", isActive |-> TRUE]]
    /\ response = [status |-> 0]

\* One agent at work, with every operation and every input.
Next ==
    \/ \E u \in Solo, id \in TxnIds : handleCallClick(u, id) /\ UNCHANGED intakeVars
    \/ \E u \in Solo : onClose(u) /\ UNCHANGED intakeVars
    \/ \E u \in Solo : handleAnsweredClick(u) /\ UNCHANGED intakeVars
    \/ \E u \in Solo : handleEndCallClick(u) /\ UNCHANGED intakeVars
    \/ \E u \in Solo : handleCallbackClick(u) /\ UNCHANGED intakeVars
    \/ \E u \in Solo : handleUnattendedClick(u) /\ UNCHANGED intakeVars
    \/ \E u \in Solo : handleCancelRemarks(u) /\ UNCHANGED intakeVars
    \/ \E u \in Solo, r \in RemarkTexts, ok \in BOOLEAN :
          handleSaveRemarks(u, r, ok) /\ UNCHANGED intakeVars
    \/ \E u \in Solo : handleAcceptSuggested(u) /\ UNCHANGED intakeVars
    \/ \E u \in Solo, sku \in ManualSkus, p \in ManualPrices :
          handleAcceptManual(u, sku, p) /\ UNCHANGED intakeVars
    \/ \E u \in Solo : refetchCalls(u) /\ UNCHANGED intakeVars
    \/ Tick /\ UNCHANGED intakeVars

Spec == Init /\ [][Next]_vars

\* Every agent at work at the same time on the same records, with the clock
\* stopped, the notes and the catalog order fixed, and no failing fetch.
NextAgents ==
    \/ \E u \in Users, id \in TxnIds : handleCallClick(u, id) /\ UNCHANGED intakeVars
    \/ \E u \in Users : handleAnsweredClick(u) /\ UNCHANGED intakeVars
                        /\ served' <= MaxAgentRequests
    \/ \E u \in Users : handleEndCallClick(u) /\ UNCHANGED intakeVars
    \/ \E u \in Users : handleUnattendedClick(u) /\ UNCHANGED intakeVars
    \/ \E u \in Users : handleSaveRemarks(u, "note", TRUE) /\ UNCHANGED intakeVars
                        /\ served' <= MaxAgentRequests
    \/ \E u \in Users : handleAcceptSuggested(u) /\ UNCHANGED intakeVars
                        /\ served' <= MaxAgentRequests
    \/ \E u \in Users : refetchCalls(u) /\ UNCHANGED intakeVars

SpecAgents == Init /\ [][NextAgents]_vars

(***************************************************************************)
(* Client: the customer modal as the present component renders it.        *)
(***************************************************************************)
\* The click handlers of the modal.
Handlers ==
    { "handleAnsweredClick", "handleEndCallClick", "handleCallbackClick",
      "handleUnattendedClick", "handleSaveRemarks" }

\* The handlers that a rendered button of the present modal has as its
\* onClick: the action buttons of the phase, on an actionable call, whether
\* or not the remarks were asked for.  No element has handleSaveRemarks.
PresentButtons(u) ==
    IF showCustomerModal[u] /\ isCallActionable(selectedCall[u])
    THEN IF callPhase[u] = "initial"
         THEN { "handleAnsweredClick", "handleUnattendedClick", "handleCallbackClick" }
         ELSE { "handleEndCallClick", "handleCallbackClick", "handleUnattendedClick" }
    ELSE {}

\* A click on a rendered button runs its handler.
pressButton(u, h) ==
    /\ h \in PresentButtons(u)
    /\ CASE h = "handleAnsweredClick" -> AnsweredClick(u)
         [] h = "handleEndCallClick" -> ExitClick(u, "end_call")
         [] h = "handleCallbackClick" -> ExitClick(u, "callback")
         [] h = "handleUnattendedClick" -> ExitClick(u, "unattended")
         [] h = "handleSaveRemarks" ->
              \E r \in RemarkTexts, ok \in BOOLEAN : handleSaveRemarks(u, r, ok)

NextModal ==
    \/ \E u \in Solo, id \in TxnIds : handleCallClick(u, id) /\ UNCHANGED intakeVars
    \/ \E u \in Solo : onClose(u) /\ UNCHANGED intakeVars
    \/ \E u \in Solo, h \in Handlers : pressButton(u, h) /\ UNCHANGED intakeVars
    \/ \E u \in Solo : refetchCalls(u) /\ UNCHANGED intakeVars
    \/ Tick /\ UNCHANGED intakeVars

SpecModal == Init /\ [][NextModal]_vars

(***************************************************************************)
(* Server: call intake into the calls table.                               *)
(***************************************************************************)
\* Dates are whole hours since the epoch.
HoursPerDay == 24
Dates == {0, 23, 24}
Phones == {"p1", "p2"}

\* storage.getAllAgents(): the users of role agent, ordered by username.
UsersByName == << "u1", "u2", "u3" >>

getAllAgents(table) ==
    SelectSeq(UsersByName, LAMBDA u : u \in DOMAIN table /\ table[u].role = "agent")

agents == getAllAgents(users)

\* PUT /api/agents/:id: the requests of the admin page, as pairs of id and body:
\* the Active switch of an agent turned off, a change of role, an unknown id.
AgentRequests ==
    { << "u1", [isActive |-> FALSE] >>, << "u1", [role |-> "admin"] >>,
      << "u2", [role |-> "admin"] >>, << "u9", [isActive |-> FALSE] >> }

updateUser(table, id, updates) ==
    IF id \in DOMAIN table THEN [table EXCEPT ![id] = Merge(@, updates)] ELSE table

putAgent(id, updates) ==
    /\ users' = updateUser(users, id, updates)
    /\ response' = [status |-> IF id \in DOMAIN users THEN 200 ELSE 404]
    /\ UNCHANGED <<calls, transactions>>
    /\ UNCHANGED <<lifecycleVars, adminVars>>

\* Request bodies of POST /api/calls: complete calls without a status, one with
\* a status of the enum, one with a status outside it, and one without phone.
BaseBodies ==
    { [date |-> d, customerName |-> "Ana", phone |-> ph, orderSku |-> "AP1"] :
        d \in Dates, ph \in Phones }

InsertBodies ==
    BaseBodies
    \cup { [date |-> 0, customerName |-> "Ana", phone |-> "p1", orderSku |-> "AP1",
            status |-> st] : st \in {"completed", "callback"} }
    \cup { [date |-> 0, customerName |-> "Ana", orderSku |-> "AP1"] }

\* insertCallSchema.parse: the NOT NULL columns without a default are required,
\* status is optional and, when given, a value of the enum.
ValidInsert(body) ==
    /\ {"date", "customerName", "phone", "orderSku"} \subseteq DOMAIN body
    /\ "status" \in DOMAIN body => body["status"] \in callStatusEnum

\* storage.createCall: the row inserted for the given values; the columns not
\* given take their defaults.
InsertedCall(callData) ==
    [ date |-> callData["date"],
      customerName |-> callData["customerName"],
      phone |-> callData["phone"],
      orderSku |-> callData["orderSku"],
      status |-> IF "status" \in DOMAIN callData THEN callData["status"] ELSE "new",
      agentId |-> IF "agentId" \in DOMAIN callData THEN callData["agentId"] ELSE NULL ]

createCall(table, callData) == Append(table, InsertedCall(callData))

\* storage.checkDuplicateCall: a call of the same phone on the day of the date.
\* Variant of the duplicate check that never finds a record.
checkDuplicateCallNever(table, phone, date) == FALSE

dayStart(date) == date - (date % HoursPerDay)

\* Variant of the end of the day that reaches to the next midnight.
dayEndNextMidnight(date) == dayStart(date) + HoursPerDay

dayEnd(date) == dayStart(date) + (HoursPerDay - 1)

checkDuplicateCall(table, phone, date) ==
    \E i \in DOMAIN table :
        /\ table[i].phone = phone
        /\ table[i].date >= dayStart(date)
        /\ table[i].date <= dayEnd(date)

\* Variant of POST /api/calls without the duplicate check.
postCallUnchecked(body) ==
    /\ Len(calls) < MaxCalls
    /\ IF ~ValidInsert(body)
       THEN /\ response' = [status |-> 400]
            /\ calls' = calls
       ELSE /\ calls' = createCall(calls, body)
            /\ response' = [status |-> 201]
    /\ UNCHANGED <<users, transactions>>
    /\ UNCHANGED <<lifecycleVars, adminVars>>

\* POST /api/calls
postCall(body) ==
    /\ Len(calls) < MaxCalls
    /\ IF ~ValidInsert(body)
       THEN /\ response' = [status |-> 400]
            /\ calls' = calls
       ELSE IF checkDuplicateCall(calls, body["phone"], body["date"])
       THEN /\ response' = [status |-> 409]
            /\ calls' = calls
       ELSE /\ calls' = createCall(calls, body)
            /\ response' = [status |-> 201]
    /\ UNCHANGED <<users, transactions>>
    /\ UNCHANGED <<lifecycleVars, adminVars>>

\* The ids of the calls table are the positions of its rows.  The requests name
\* the first row or an id that no row has.
CallIds == { 1, MaxCalls + 1 }

\* Request bodies of PUT /api/calls/:id: a status of the enum, a status outside
\* it, and no column at all.
UpdateBodies == { [status |-> "called"], [status |-> "callback"], NoFields }

\* insertCallSchema.partial().parse: every column is optional; a status, when
\* given, is a value of the enum.
ValidCallUpdate(updates) ==
    "status" \in DOMAIN updates => updates["status"] \in callStatusEnum

\* Variant of updateCall whose WHERE clause falls back to the first row.
updateCallAnyRow(table, id, updates) ==
    IF table = <<>> THEN table
    ELSE [table EXCEPT ![IF id \in DOMAIN table THEN id ELSE 1] = Merge(@, updates)]

\* storage.updateCall: the table after the update; an unknown id matches no row.
updateCall(table, id, updates) ==
    IF id \in DOMAIN table THEN [table EXCEPT ![id] = Merge(@, updates)] ELSE table

\* PUT /api/calls/:id
putCall(id, body) ==
    /\ IF ~ValidCallUpdate(body)
       THEN /\ response' = [status |-> 400]
            /\ calls' = calls
       ELSE /\ calls' = updateCall(calls, id, body)
            /\ response' = [status |-> IF id \in DOMAIN calls THEN 200 ELSE 404]
    /\ UNCHANGED <<users, transactions>>
    /\ UNCHANGED <<lifecycleVars, adminVars>>

\* storage.assignCallToAgent
assignCallToAgent(table, callId, agentId) ==
    updateCall(table, callId, [agentId |-> agentId])

\* POST /api/calls/:id/assign
assignCall(id, agentId) ==
    /\ calls' = assignCallToAgent(calls, id, agentId)
    /\ response' = [status |-> IF id \in DOMAIN calls THEN 200 ELSE 404]
    /\ UNCHANGED <<users, transactions>>
    /\ UNCHANGED <<lifecycleVars, adminVars>>

\* storage.addCallHistory: the only statement that writes the call_history
\* table, an insert.  No route and no storage method calls it.
addCallHistory(table, history) == Append(table, history)

\* storage.getCallHistory: the entries of a call.
getCallHistory(table, callId) == SelectSeq(table, LAMBDA h : h.callId = callId)

\* GET /api/calls/:id/history
getHistory(id) ==
    /\ response' = [status |-> 200, history |-> getCallHistory(callHistory, id)]
    /\ UNCHANGED <<calls, users, transactions>>
    /\ UNCHANGED <<lifecycleVars, adminVars>>

NextIntake ==
    \/ \E body \in InsertBodies : postCall(body)
    \/ \E id \in CallIds, body \in UpdateBodies : putCall(id, body)
    \/ \E id \in CallIds, agentId \in Solo : assignCall(id, agentId)
    \/ \E id \in CallIds : getHistory(id)

SpecIntake == Init /\ [][NextIntake]_vars

(***************************************************************************)
(* Server: CSV import.                                                     *)
(***************************************************************************)
\* Lines of an uploaded CSV file under the header date,name,phone,order,qty:
\* complete lines with or without a phone, and one whose quantity is not a number.
CsvLines ==
    { [date |-> 0, name |-> "Ana", phone |-> "p1", order |-> "AP1", qty |-> "1",
       complete |-> TRUE],
      [date |-> 0, name |-> "Ana", phone |-> "p2", order |-> "AP1", qty |-> "1",
       complete |-> TRUE],
      [date |-> 0, name |-> "Ana", phone |-> "", order |-> "AP1", qty |-> "1",
       complete |-> TRUE],
      [date |-> 23, name |-> "Ana", phone |-> "p2", order |-> "AP1", qty |-> "x",
       complete |-> TRUE] }

\* A line with fewer fields than the header, alone and after a valid line.
ShortLine ==
    [date |-> 0, name |-> "Ana", phone |-> "p1", order |-> "", qty |-> "",
     complete |-> FALSE]

MalformedFiles ==
    { << ShortLine >>,
      << [date |-> 0, name |-> "Ana", phone |-> "p2", order |-> "AP1", qty |-> "1",
          complete |-> TRUE], ShortLine >> }

\* Three valid rows, a duplicate of the first, and a row without a phone.
ScenarioFile ==
    << [date |-> 0, name |-> "Ana", phone |-> "p1", order |-> "AP1", qty |-> "1",
        complete |-> TRUE],
       [date |-> 0, name |-> "Ana", phone |-> "p2", order |-> "AP1", qty |-> "1",
        complete |-> TRUE],
       [date |-> 24, name |-> "Ana", phone |-> "p1", order |-> "AP1", qty |-> "1",
        complete |-> TRUE],
       [date |-> 0, name |-> "Ana", phone |-> "p1", order |-> "AP1", qty |-> "1",
        complete |-> TRUE],
       [date |-> 0, name |-> "Ana", phone |-> "", order |-> "AP1", qty |-> "1",
        complete |-> TRUE] >>

CsvFiles ==
    UNION { [1..n -> CsvLines] : n \in 1..MaxRows } \cup { ScenarioFile }
        \cup MalformedFiles

\* Papa.parse with header: the rows, and one error for every line whose number
\* of fields differs from the header's.
parseErrors(csv) == { i \in DOMAIN csv : ~csv[i].complete }

\* parseInt of a quantity column: a number, or NaN.
NaN == None
parseInt(s) == IF s = "1" THEN Some(1) ELSE NaN

\* The insert of a row fails when a column cannot take the value.
InsertFails(callData) == callData.quantity = NaN

NoResults == [success |-> 0, errors |-> <<>>, duplicates |-> 0]

\* Variant of the import loop that assigns every row to the first agent.
RECURSIVE importRowsFixedAgent(_, _, _, _, _)
importRowsFixedAgent(data, i, table, agentIndex, results) ==
    IF i > Len(data) THEN [table |-> table, results |-> results]
    ELSE LET row == data[i]
             callData == [ date |-> row.date, customerName |-> row.name,
                           phone |-> row.phone, orderSku |-> row.order,
                           quantity |-> parseInt(row.qty),
                           agentId |-> IF Len(agents) > 0 THEN agents[1] ELSE NULL ]
         IN IF callData.customerName = "" \/ callData.phone = ""
                 \/ callData.orderSku = ""
            THEN importRowsFixedAgent(data, i + 1, table, agentIndex,
                            [results EXCEPT !.errors = Append(@, i)])
            ELSE IF checkDuplicateCall(table, callData.phone, callData.date)
            THEN importRowsFixedAgent(data, i + 1, table, agentIndex,
                            [results EXCEPT !.duplicates = @ + 1])
            ELSE IF InsertFails(callData)
            THEN importRowsFixedAgent(data, i + 1, table, agentIndex,
                            [results EXCEPT !.errors = Append(@, i)])
            ELSE importRowsFixedAgent(data, i + 1, createCall(table, callData),
                            agentIndex + 1, [results EXCEPT !.success = @ + 1])

\* Variant of the import loop that counts a created row as a duplicate too.
RECURSIVE importRowsCountAll(_, _, _, _, _)
importRowsCountAll(data, i, table, agentIndex, results) ==
    IF i > Len(data) THEN [table |-> table, results |-> results]
    ELSE LET row == data[i]
             callData == [ date |-> row.date, customerName |-> row.name,
                           phone |-> row.phone, orderSku |-> row.order,
                           quantity |-> parseInt(row.qty),
                           agentId |-> IF Len(agents) > 0
                                       THEN agents[(agentIndex % Len(agents)) + 1]
                                       ELSE NULL ]
         IN IF callData.customerName = "" \/ callData.phone = ""
                 \/ callData.orderSku = ""
            THEN importRowsCountAll(data, i + 1, table, agentIndex,
                            [results EXCEPT !.errors = Append(@, i)])
            ELSE IF checkDuplicateCall(table, callData.phone, callData.date)
            THEN importRowsCountAll(data, i + 1, table, agentIndex,
                            [results EXCEPT !.duplicates = @ + 1])
            ELSE IF InsertFails(callData)
            THEN importRowsCountAll(data, i + 1, table, agentIndex,
                            [results EXCEPT !.errors = Append(@, i)])
            ELSE importRowsCountAll(data, i + 1, createCall(table, callData),
                            agentIndex + 1,
                            [results EXCEPT !.success = @ + 1, !.duplicates = @ + 1])

\* The loop of POST /api/calls/import from row i on: the table and the results
\* after the last row.
RECURSIVE importRows(_, _, _, _, _)
importRows(data, i, table, agentIndex, results) ==
    IF i > Len(data) THEN [table |-> table, results |-> results]
    ELSE LET row == data[i]
             callData == [ date |-> row.date, customerName |-> row.name,
                           phone |-> row.phone, orderSku |-> row.order,
                           quantity |-> parseInt(row.qty),
                           agentId |-> IF Len(agents) > 0
                                       THEN agents[(agentIndex % Len(agents)) + 1]
                                       ELSE NULL ]
         IN IF callData.customerName = "" \/ callData.phone = ""
                 \/ callData.orderSku = ""
            THEN importRows(data, i + 1, table, agentIndex,
                            [results EXCEPT !.errors = Append(@, i)])
            ELSE IF checkDuplicateCall(table, callData.phone, callData.date)
            THEN importRows(data, i + 1, table, agentIndex,
                            [results EXCEPT !.duplicates = @ + 1])
            ELSE IF InsertFails(callData)
            THEN importRows(data, i + 1, table, agentIndex,
                            [results EXCEPT !.errors = Append(@, i)])
            ELSE importRows(data, i + 1, createCall(table, callData), agentIndex + 1,
                            [results EXCEPT !.success = @ + 1])

\* POST /api/calls/import
importCalls(csv) ==
    /\ IF parseErrors(csv) /= {}
       THEN /\ response' = [status |-> 400]
            /\ calls' = calls
       ELSE \E out \in { importRows(csv, 1, calls, 0, NoResults) } :
               /\ Len(out.table) <= MaxCalls
               /\ calls' = out.table
               /\ response' = [status |-> 200] @@ out.results
    /\ UNCHANGED <<users, transactions>>
    /\ UNCHANGED <<lifecycleVars, adminVars>>

NextImport ==
    \/ \E csv \in CsvFiles : importCalls(csv)
    \/ \E req \in AgentRequests : putAgent(req[1], req[2])

SpecImport == Init /\ [][NextImport]_vars

(***************************************************************************)
(* Server: requests in progress at the same time.  A handler runs up to   *)
(* its next await of a storage call; the storage call is one statement of *)
(* the database, and the statements of different requests interleave.     *)
(***************************************************************************)
\* Bodies of concurrent POST /api/calls: the same phone on the dates of the
\* model, and a body without phone.
RaceBodies ==
    { [date |-> d, customerName |-> "Ana", phone |-> "p1", orderSku |-> "AP1"] :
        d \in Dates }
    \cup { [date |-> 0, customerName |-> "Ana", orderSku |-> "AP1"] }

\* Files of concurrent imports: one row, two rows, and a malformed file.
RaceFiles ==
    { << [date |-> 0, name |-> "Ana", phone |-> "p1", order |-> "AP1", qty |-> "1",
          complete |-> TRUE] >>,
      << [date |-> 23, name |-> "Ana", phone |-> "p1", order |-> "AP1", qty |-> "x",
          complete |-> TRUE],
         [date |-> 0, name |-> "Ana", phone |-> "p1", order |-> "AP1", qty |-> "1",
          complete |-> TRUE] >>,
      << ShortLine >> }

\* The step of a request leaves the other tables and the clients alone.
RequestFrame ==
    /\ UNCHANGED <<users, transactions, callHistory, productRows, loggedIn>>
    /\ UNCHANGED lifecycleVars

\* POST /api/calls up to `await storage.checkDuplicateCall`.
postCallBegin(r, body) ==
    /\ inflight[r].pc = "idle"
    /\ IF ~ValidInsert(body)
       THEN /\ response' = [status |-> 400]
            /\ inflight' = inflight
       ELSE /\ response' = response
            /\ inflight' = [inflight EXCEPT ![r] =
                                [Idle EXCEPT !.pc = "postCheck", !.callData = body]]
    /\ calls' = calls
    /\ RequestFrame

\* The select of checkDuplicateCall and the handler up to
\* `await storage.createCall`.
postCallCheck(r) ==
    /\ inflight[r].pc = "postCheck"
    /\ IF checkDuplicateCall(calls, inflight[r].callData["phone"],
                             inflight[r].callData["date"])
       THEN /\ response' = [status |-> 409]
            /\ inflight' = [inflight EXCEPT ![r] = Idle]
       ELSE /\ response' = response
            /\ inflight' = [inflight EXCEPT ![r].pc = "postCreate"]
    /\ calls' = calls
    /\ RequestFrame

\* The insert of createCall and the answer of POST /api/calls.
postCallCreate(r) ==
    /\ inflight[r].pc = "postCreate"
    /\ Len(calls) < MaxCalls
    /\ calls' = createCall(calls, inflight[r].callData)
    /\ response' = [status |-> 201]
    /\ inflight' = [inflight EXCEPT ![r] = Idle]
    /\ RequestFrame

\* POST /api/calls/import up to `await storage.getAllAgents`.
importBegin(r, csv) ==
    /\ inflight[r].pc = "idle"
    /\ IF parseErrors(csv) /= {}
       THEN /\ response' = [status |-> 400]
            /\ inflight' = inflight
       ELSE /\ response' = response
            /\ inflight' = [inflight EXCEPT ![r] =
                                [Idle EXCEPT !.pc = "importAgents", !.data = csv]]
    /\ calls' = calls
    /\ RequestFrame

\* The callData of row i of an import in progress.
importCallData(req) ==
    LET row == req.data[req.i]
    IN [ date |-> row.date, customerName |-> row.name, phone |-> row.phone,
         orderSku |-> row.order, quantity |-> parseInt(row.qty),
         agentId |-> IF Len(req.agents) > 0
                     THEN req.agents[(req.agentIndex % Len(req.agents)) + 1]
                     ELSE NULL ]

\* An import in progress at row i, up to its next await: the rows without a
\* required field are skipped, `checkDuplicateCall` is awaited for the first
\* row that has them, and the answer is sent after the last row.
RECURSIVE importAdvance(_)
importAdvance(req) ==
    IF req.i > Len(req.data) THEN [req EXCEPT !.pc = "importDone"]
    ELSE LET callData == importCallData(req)
         IN IF callData.customerName = "" \/ callData.phone = ""
                 \/ callData.orderSku = ""
            THEN importAdvance([req EXCEPT !.i = @ + 1,
                                           !.results.errors = Append(@, req.i)])
            ELSE [req EXCEPT !.pc = "importCheck", !.callData = callData]

\* The answer of an import that has come to its end, and its next position.
importAnswer(r, req) ==
    IF req.pc = "importDone"
    THEN /\ response' = [status |-> 200] @@ req.results
         /\ inflight' = [inflight EXCEPT ![r] = Idle]
    ELSE /\ response' = response
         /\ inflight' = [inflight EXCEPT ![r] = req]

\* The select of getAllAgents and the loop up to its first await.
importAgents(r) ==
    /\ inflight[r].pc = "importAgents"
    /\ importAnswer(r, importAdvance([inflight[r] EXCEPT
                                         !.agents = getAllAgents(users), !.i = 1]))
    /\ calls' = calls
    /\ RequestFrame

\* The select of checkDuplicateCall for row i and the loop up to its next
\* await: `await storage.createCall` for a row that is no duplicate.
importCheck(r) ==
    /\ inflight[r].pc = "importCheck"
    /\ IF checkDuplicateCall(calls, inflight[r].callData.phone,
                             inflight[r].callData.date)
       THEN importAnswer(r, importAdvance([inflight[r] EXCEPT
                                             !.i = @ + 1,
                                             !.results.duplicates = @ + 1]))
       ELSE /\ response' = response
            /\ inflight' = [inflight EXCEPT ![r].pc = "importCreate"]
    /\ calls' = calls
    /\ RequestFrame

\* The insert of createCall for row i and the loop up to its next await.
importCreate(r) ==
    /\ inflight[r].pc = "importCreate"
    /\ Len(calls) < MaxCalls
    /\ IF InsertFails(inflight[r].callData)
       THEN /\ calls' = calls
            /\ importAnswer(r, importAdvance([inflight[r] EXCEPT
                                  !.i = @ + 1,
                                  !.results.errors = Append(@, inflight[r].i)]))
       ELSE /\ calls' = createCall(calls, inflight[r].callData)
            /\ importAnswer(r, importAdvance([inflight[r] EXCEPT
                                  !.i = @ + 1,
                                  !.agentIndex = @ + 1,
                                  !.results.success = @ + 1]))
    /\ RequestFrame

NextRace ==
    \/ \E r \in Requests, body \in RaceBodies : postCallBegin(r, body)
    \/ \E r \in Requests : postCallCheck(r)
    \/ \E r \in Requests : postCallCreate(r)
    \/ \E r \in Requests, csv \in RaceFiles : importBegin(r, csv)
    \/ \E r \in Requests : importAgents(r)
    \/ \E r \in Requests : importCheck(r)
    \/ \E r \in Requests : importCreate(r)

SpecRace == Init /\ [][NextRace]_vars

(***************************************************************************)
(* Server: dashboard analytics.                                            *)
(***************************************************************************)
\* The time of a dashboard request, in hours: on the day of the calls dated 23,
\* on the day of the calls dated 24, and on the day after.
StatClocks == {6, 30, 50}

\* The calls table of a running system: n calls, assigned to the agents in
\* turn, the first `old` of them dated on the day before the others.
StatCallTable(n, old) ==
    [ k \in 1..n |->
        [ date |-> IF k <= old THEN 23 ELSE 24,
          customerName |-> "Ana",
          phone |-> "p" \o ToString(k),
          orderSku |-> "AP1",
          status |-> "new",
          agentId |-> UsersByName[((k - 1) % Cardinality(Users)) + 1] ] ]

StatCallTables ==
    { StatCallTable(n, old) : n \in 0..MaxStatCalls, old \in {0, 1} }

\* Rows of the transactions table as the analytics queries read them: the call
\* of the transaction, its agent, the upsell flag and the hour of creation.
TransactionRows ==
    { [callId |-> 1, agentId |-> "u1", isUpsell |-> TRUE, createdAt |-> 24],
      [callId |-> 1, agentId |-> "u1", isUpsell |-> FALSE, createdAt |-> 24],
      [callId |-> 2, agentId |-> "u2", isUpsell |-> TRUE, createdAt |-> 24],
      [callId |-> 1, agentId |-> "u1", isUpsell |-> TRUE, createdAt |-> 23] }

\* storage.createTransaction
createTransaction(table, row) == table (+) SetToBag({row})

\* POST /api/transactions: the call of the transaction has to exist.
postTransaction(row) ==
    /\ BagCardinality(transactions) < MaxTransactions
    /\ IF row.callId \in DOMAIN calls
       THEN /\ transactions' = createTransaction(transactions, row)
            /\ response' = [status |-> 201]
       ELSE /\ transactions' = transactions
            /\ response' = [status |-> 500]
    /\ UNCHANGED <<calls, users>>
    /\ UNCHANGED <<lifecycleVars, adminVars>>

\* count() of the rows of a table (a bag) that are among the selected ones.
CountRows(table, selected) ==
    BagCardinality([ r \in BagToSet(table) \cap selected |-> table[r] ])

\* Variant of the rounding that truncates.
TruncateToHundredths(num, den) == (100 * num) \div den

\* Math.round(value * 100) / 100 of the quotient num / den, in hundredths:
\* the nearest hundredth, a half rounded up.
RoundToHundredths(num, den) == (2 * 100 * num + den) \div (2 * den)

\* storage.getDashboardStats at the given hour.  The conversion rate and its
\* rounding are in hundredths of a percent.
getDashboardStats(agentId, clock) ==
    LET today == dayStart(clock)
        tomorrow == today + HoursPerDay
        totalCallsToday ==
            Cardinality({ i \in DOMAIN calls :
                            /\ calls[i].date >= today
                            /\ calls[i].date <= tomorrow
                            /\ agentId /= NULL => calls[i].agentId = agentId })
        successfulUpsells ==
            CountRows(transactions,
                      { t \in BagToSet(transactions) :
                          /\ t.createdAt >= today
                          /\ t.createdAt <= tomorrow
                          /\ t.isUpsell
                          /\ agentId /= NULL => t.agentId = agentId })
    IN [ totalCallsToday |-> totalCallsToday,
         successfulUpsells |-> successfulUpsells,
         conversionRate |-> IF totalCallsToday > 0
                            THEN RoundToHundredths(successfulUpsells * 100,
                                                   totalCallsToday)
                            ELSE 0 ]

\* The query parameter agentId of a dashboard request: a user id, or none.
StatQueries == Users \cup {NULL}

\* Variant of the agent scope that takes the query parameter for every user.
statsAgentIdFromQuery(user, queryAgentId) == queryAgentId

\* The agent scope of a dashboard request: an agent sees its own statistics,
\* every other user those of the agentId of the query, of all agents without.
statsAgentId(user, queryAgentId) ==
    IF users[user].role = "agent" THEN user ELSE queryAgentId

\* GET /api/dashboard/stats of a logged-in user
getStats(user, queryAgentId, clock) ==
    /\ response' = [status |-> 200]
                    @@ getDashboardStats(statsAgentId(user, queryAgentId), clock)
    /\ UNCHANGED <<calls, users, transactions>>
    /\ UNCHANGED <<lifecycleVars, adminVars>>

\* The rows of users LEFT JOIN calls LEFT JOIN transactions for one user: one
\* row for every transaction of every call of the user, one row for a call
\* without transactions, and one row without call for a user without calls.
CallsOf(user) == { i \in DOMAIN calls : calls[i].agentId = user }

TransactionsOf(callId) ==
    CountRows(transactions, { t \in BagToSet(transactions) : t.callId = callId })

UpsellsOf(callId) ==
    CountRows(transactions,
              { t \in BagToSet(transactions) : t.callId = callId /\ t.isUpsell })

\* The sum of the values of a function over a finite set of its arguments.
RECURSIVE SumOver(_, _)
SumOver(S, f) ==
    IF S = {} THEN 0
    ELSE LET x == CHOOSE y \in S : TRUE IN f[x] + SumOver(S \ {x}, f)

JoinedCallRows(callId) ==
    IF TransactionsOf(callId) = 0 THEN 1 ELSE TransactionsOf(callId)

\* storage.getAgentPerformance: one entry for every active user of role agent.
getAgentPerformance ==
    [ a \in { u \in Users : users[u].role = "agent" /\ users[u].isActive } |->
        LET callsHandled == SumOver(CallsOf(a),
                                    [i \in CallsOf(a) |-> JoinedCallRows(i)])
            upsellsClosed == SumOver(CallsOf(a),
                                     [i \in CallsOf(a) |-> UpsellsOf(i)])
        IN [ callsHandled |-> callsHandled,
             upsellsClosed |-> upsellsClosed,
             conversionRate |-> IF callsHandled > 0
                                THEN RoundToHundredths(upsellsClosed * 100,
                                                       callsHandled)
                                ELSE 0 ] ]

\* GET /api/dashboard/agent-performance
getPerformance ==
    /\ response' = [status |-> 200, performance |-> getAgentPerformance]
    /\ UNCHANGED <<calls, users, transactions>>
    /\ UNCHANGED <<lifecycleVars, adminVars>>

InitStats ==
    /\ InitLifecycle
    /\ InitAdmin
    /\ calls \in StatCallTables
    /\ users = [u \in Users |-> [role |-> "agent", isActive |-> TRUE]]
    /\ transactions = EmptyBag
    /\ response = [status |-> 0]

NextStats ==
    \/ \E row \in TransactionRows : postTransaction(row)
    \/ \E req \in AgentRequests : putAgent(req[1], req[2])
    \/ \E user \in Users, queryAgentId \in StatQueries, clock \in StatClocks :
          getStats(user, queryAgentId, clock)
    \/ getPerformance

SpecStats == InitStats /\ [][NextStats]_vars

\* The transactions table after one upsell on a call of each agent.
UpsellOfEach ==
    SetToBag({ [callId |-> 1, agentId |-> "u1", isUpsell |-> TRUE, createdAt |-> 24],
               [callId |-> 2, agentId |-> "u2", isUpsell |-> TRUE, createdAt |-> 24] })

\* The dashboard requests of the users over a calls table and a transactions
\* table that stay as they are, while the roles of the users change.
InitScope ==
    /\ InitLifecycle
    /\ InitAdmin
    /\ calls \in StatCallTables
    /\ users = [u \in Users |-> [role |-> "agent", isActive |-> TRUE]]
    /\ transactions \in {EmptyBag} \cup { b \in {UpsellOfEach} : Len(calls) >= 2 }
    /\ response = [status |-> 0]

NextScope ==
    \/ \E req \in AgentRequests : putAgent(req[1], req[2])
    \/ \E user \in Users, queryAgentId \in StatQueries, clock \in StatClocks :
          getStats(user, queryAgentId, clock)

SpecScope == InitScope /\ [][NextScope]_vars

(***************************************************************************)
(* Server: login and the guarded routes.                                   *)
(***************************************************************************)
\* hashPassword: the scrypt hash of a password (the random salt is left out).
hashPassword(password) == << "scrypt", password >>

\* verifyPassword: the hash of the password given is the stored hash.
verifyPassword(password, storedHash) == hashPassword(password) = storedHash

\* The users table of an installation with an administrator and an agent.  The
\* key of a row stands for both its id and its username.
AuthUsers ==
    [ u \in Users |->
        [ role |-> IF u = "u1" THEN "admin" ELSE "agent", isActive |-> TRUE,
          password |-> hashPassword("pw") ] ]

\* What a login or registration form can carry.
Usernames == {"u1", "u2", "u3"}
Passwords == {"pw", "bad"}
RegisterRoles == {"admin", "agent", NULL}

\* req.user of a request of a client.  passport.authenticate sets it only in
\* the request it runs in (POST /api/login, session: false); the middlewares
\* of the server (json, urlencoded, cors, passport.initialize) restore no user
\* of an earlier login, so every other request arrives without one.
reqUser(c) == NULL

\* req.isAuthenticated(): the request carries a user.
isAuthenticated(user) == user /= NULL

requireAuth(user) == isAuthenticated(user)

\* Variant of requireAdmin that lets every request pass.
requireAdminOpen(user) == TRUE

requireAdmin(user) == isAuthenticated(user) /\ users[user].role = "admin"

\* A middleware answers the request itself: nothing is read or written.
Reject(code) ==
    /\ response' = [status |-> code]
    /\ UNCHANGED <<calls, users, transactions, adminVars>>
    /\ UNCHANGED lifecycleVars

\* A route behind requireAuth and a route behind requireAdmin.
authRoute(c, handler) == IF requireAuth(reqUser(c)) THEN handler ELSE Reject(401)

adminRoute(c, handler) == IF requireAdmin(reqUser(c)) THEN handler ELSE Reject(403)

\* POST /api/login: the local strategy looks the user up by username and
\* verifies the password; the client keeps the user of a successful login.
login(c, username, password) ==
    /\ IF username \notin DOMAIN users
       THEN /\ response' = [status |-> 401]
            /\ loggedIn' = loggedIn
       ELSE IF ~verifyPassword(password, users[username].password)
       THEN /\ response' = [status |-> 401]
            /\ loggedIn' = loggedIn
       ELSE /\ response' = [status |-> 200, user |-> username]
            /\ loggedIn' = [loggedIn EXCEPT ![c] = username]
    /\ UNCHANGED <<calls, users, transactions, callHistory, productRows, inflight>>
    /\ UNCHANGED lifecycleVars

\* POST /api/register: insert ... on conflict (username) do nothing.
register(username, password, role) ==
    /\ IF username \in DOMAIN users
       THEN /\ response' = [status |-> 409]
            /\ users' = users
       ELSE /\ users' = users @@ (username :>
                          [ role |-> IF role = NULL THEN "user" ELSE role,
                            isActive |-> TRUE,
                            password |-> hashPassword(password) ])
            /\ response' = [status |-> 201, user |-> username]
    /\ UNCHANGED <<calls, transactions, adminVars>>
    /\ UNCHANGED lifecycleVars

\* GET /api/user
getUser(c) ==
    /\ response' = [status |-> 200, user |-> NULL]
    /\ UNCHANGED <<calls, users, transactions, adminVars>>
    /\ UNCHANGED lifecycleVars

\* POST /api/logout: the client forgets its user.
logout(c) ==
    /\ response' = [status |-> 200, ok |-> TRUE]
    /\ loggedIn' = [loggedIn EXCEPT ![c] = NULL]
    /\ UNCHANGED <<calls, users, transactions, callHistory, productRows, inflight>>
    /\ UNCHANGED lifecycleVars

\* Request bodies of the product routes: a new product, and one without price.
ProductBodies == { [sku |-> "AP3", price |-> 900], [sku |-> "AP3"] }

ProductIds == { 1, 9 }

\* insertProductSchema.parse: sku and price are required.
ValidProduct(body) == {"sku", "price"} \subseteq DOMAIN body

\* storage.createProduct
createProduct(table, product) == Append(table, product)

\* storage.updateProduct
updateProduct(table, id, updates) ==
    IF id \in DOMAIN table THEN [table EXCEPT ![id] = Merge(@, updates)] ELSE table

\* GET /api/products
getProducts ==
    /\ response' = [status |-> 200, products |-> productRows]
    /\ UNCHANGED <<calls, users, transactions, adminVars>>
    /\ UNCHANGED lifecycleVars

\* POST /api/products; the SKU column is unique.
postProduct(body) ==
    /\ IF ~ValidProduct(body)
       THEN /\ response' = [status |-> 400]
            /\ productRows' = productRows
       ELSE IF \E i \in DOMAIN productRows : productRows[i].sku = body["sku"]
       THEN /\ response' = [status |-> 500]
            /\ productRows' = productRows
       ELSE /\ productRows' = createProduct(productRows, body)
            /\ response' = [status |-> 201]
    /\ UNCHANGED <<calls, users, transactions, callHistory, loggedIn, inflight>>
    /\ UNCHANGED lifecycleVars

\* PUT /api/products/:id
putProduct(id, body) ==
    /\ productRows' = updateProduct(productRows, id, body)
    /\ response' = [status |-> IF id \in DOMAIN productRows THEN 200 ELSE 404]
    /\ UNCHANGED <<calls, users, transactions, callHistory, loggedIn, inflight>>
    /\ UNCHANGED lifecycleVars

\* GET /api/agents
getAgents ==
    /\ response' = [status |-> 200, agents |-> getAllAgents(users)]
    /\ UNCHANGED <<calls, users, transactions, adminVars>>
    /\ UNCHANGED lifecycleVars

\* POST /api/agents: a new user of role agent, unless the username exists.
postAgent(username, password) ==
    /\ IF username \in DOMAIN users
       THEN /\ response' = [status |-> 400]
            /\ users' = users
       ELSE /\ users' = users @@ (username :>
                          [ role |-> "agent", isActive |-> TRUE,
                            password |-> password ])
            /\ response' = [status |-> 201]
    /\ UNCHANGED <<calls, transactions, adminVars>>
    /\ UNCHANGED lifecycleVars

InitAuth ==
    /\ InitLifecycle
    /\ InitAdmin
    /\ calls = <<>>
    /\ transactions = EmptyBag
    /\ users = AuthUsers
    /\ response = [status |-> 0]

NextAuth ==
    \/ \E c \in Clients, u \in Usernames, pw \in Passwords : login(c, u, pw)
    \/ \E u \in Usernames, pw \in Passwords, r \in RegisterRoles : register(u, pw, r)
    \/ \E c \in Clients : getUser(c)
    \/ \E c \in Clients : logout(c)
    \/ \E c \in Clients : authRoute(c, getProducts)
    \/ \E c \in Clients, body \in ProductBodies : adminRoute(c, postProduct(body))
    \/ \E c \in Clients, id \in ProductIds :
          adminRoute(c, putProduct(id, [price |-> 100]))
    \/ \E c \in Clients, csv \in CsvFiles : adminRoute(c, importCalls(csv))
    \/ \E c \in Clients : adminRoute(c, getAgents)
    \/ \E c \in Clients, u \in Usernames, pw \in Passwords :
          adminRoute(c, postAgent(u, pw))
    \/ \E c \in Clients, req \in AgentRequests : adminRoute(c, putAgent(req[1], req[2]))

SpecAuth == InitAuth /\ [][NextAuth]_vars

(***************************************************************************)
(* Properties.                                                             *)
(***************************************************************************)
\* Steps of one user: saving the remarks of an exit, accepting an order.
SaveStep(u) == \E r \in RemarkTexts, ok \in BOOLEAN : handleSaveRemarks(u, r, ok)

AcceptUpsellStep(u) ==
    \/ handleAcceptSuggested(u)
    \/ \E sku \in ManualSkus, p \in ManualPrices : handleAcceptManual(u, sku, p)

OrderColumns(row) ==
    << row.orderSku, row.currentPrice, row.originalOrderSku, row.originalPrice,
       row.revenue, row.isUpsell >>

\* C1: once originalOrderSku / originalPrice of a record are non-null, no
\* accept-upsell step changes them, whether the client's cached copy is fresh
\* or stale and whether the price is the catalog's or typed by the agent.
C1_BaselineKept ==
    [][\A u \in Users :
         AcceptUpsellStep(u) =>
           LET id == selectedCall[u].id IN
           /\ txn[id].originalOrderSku /= NULL
                => txn'[id].originalOrderSku = txn[id].originalOrderSku
           /\ Present(txn[id].originalPrice)
                => txn'[id].originalPrice = txn[id].originalPrice]_vars

\* C2: in every reachable state of a record, isUpsell implies that revenue is
\* the current price minus originalPrice, and a record that is not an upsell
\* has revenue 0 or null.
C2_RevenueMatchesUpsell ==
    \A id \in TxnIds :
        LET r == txn[id] IN
        /\ r.isUpsell => /\ Present(r.revenue)
                         /\ Present(r.originalPrice)
                         /\ r.revenue[1] = r.currentPrice - r.originalPrice[1]
        /\ ~r.isUpsell => r.revenue \in {None, Some(0)}

C4_UnattendedKeepsOrder ==
    [][\A u \in Users :
         ( /\ SaveStep(u)
           /\ remarksAction[u] = "unattended"
           /\ txn[selectedCall[u].id].status \in {"new", "in_progress"} )
         => LET id == selectedCall[u].id
            IN /\ txn'[id].status = "unattended"
               /\ OrderColumns(txn'[id]) = OrderColumns(txn[id])]_vars

\* C5: Mark Callback on a record in status new or in_progress leaves the stored
\* record in status callback, with the order columns unchanged.
C5_CallbackStored ==
    [][\A u \in Users :
         ( /\ SaveStep(u)
           /\ remarksAction[u] = "callback"
           /\ txn[selectedCall[u].id].status \in {"new", "in_progress"} )
         => LET id == selectedCall[u].id
            IN /\ txn'[id].status = "callback"
               /\ OrderColumns(txn'[id]) = OrderColumns(txn[id])]_vars

C7_CompletedTerminal ==
    [][\A id \in TxnIds :
         txn[id].status = "completed" => txn'[id].status = "completed"]_vars

\* C7 (amended): the modal is never open on a copy of a record that shows
\* completed, and the status of a completed record changes only by an operation
\* from a modal whose copy of the record does not show completed.
C7_CompletedKept ==
    /\ [](\A u \in Users :
            showCustomerModal[u] => selectedCall[u].status /= "completed")
    /\ [][\A id \in TxnIds :
            ( txn[id].status = "completed" /\ txn'[id].status /= "completed" )
            => \E u \in Users :
                  /\ handleAnsweredClick(u) \/ SaveStep(u) \/ AcceptUpsellStep(u)
                  /\ selectedCall[u].id = id
                  /\ selectedCall[u].status /= "completed"]_vars

\* C7 witness: a record was completed while another agent's modal is open on it.
C7_CompletedUnderOpenModal ==
    \E id \in TxnIds, u \in Users :
        /\ txn[id].status = "completed"
        /\ txn[id].agentId /= u
        /\ showCustomerModal[u]
        /\ selectedCall[u].id = id

\* C8: a record in status called, unattended or callback can be re-dialed: with
\* the modal closed, its row of the call list offers the Dial button.
C8_ReDial ==
    \A u \in Users, id \in TxnIds :
        ( /\ ~showCustomerModal[u]
          /\ cache[u][id].status \in {"called", "unattended", "callback"} )
        => DialRendered(cache[u][id])

\* C9: accept-upsell leaves the status of the record at in_progress and does not
\* set callEndedAt or callDuration, and the modal stays open in the answered
\* phase with its timer untouched, so that further orders can follow.
C9_UpsellKeepsCallOpen ==
    [][\A u \in Users :
         AcceptUpsellStep(u) =>
           LET id == selectedCall[u].id IN
           /\ txn'[id].status = "in_progress"
           /\ txn'[id].callEndedAt = txn[id].callEndedAt
           /\ txn'[id].callDuration = txn[id].callDuration
           /\ showCustomerModal'[u]
           /\ callPhase'[u] = "answered"
           /\ selectedCall'[u].status /= "completed"
           /\ isTimerRunning'[u] = isTimerRunning[u]
           /\ callTimer'[u] = callTimer[u]]_vars

\* C9 witness: two orders accepted in sequence in one answered call that has not
\* been exited (the three updates served are Answered and the two orders).
C9_TwoUpsells ==
    \E id \in TxnIds, u \in Users :
        /\ served = 3
        /\ remarksAction[u] = "end_call"
        /\ showCustomerModal[u]
        /\ selectedCall[u].id = id
        /\ txn[id].status = "in_progress"
        /\ txn[id].isUpsell
        /\ txn[id].originalOrderSku = "AP1"
        /\ txn[id].callEndedAt = None
        /\ txn[id].callDuration = None

SameDay(d1, d2) == (d1 \div HoursPerDay) = (d2 \div HoursPerDay)

HasCallOn(table, phone, date) ==
    \E i \in DOMAIN table : table[i].phone = phone /\ SameDay(table[i].date, date)

\* C11: checkDuplicateCall(phone, d) finds a record if and only if some record
\* has the same phone and a date on the calendar day of d; a record of another
\* phone or another day is no hit.
C11_DuplicateIffSameDay ==
    \A phone \in Phones, d \in Dates :
        checkDuplicateCall(calls, phone, d) <=> HasCallOn(calls, phone, d)

\* C11 witness: two records of one phone an hour apart across midnight were both
\* admitted, and a later creation was rejected as a duplicate.
C11_AcrossMidnight ==
    /\ response.status = 409
    /\ \E i, j \in DOMAIN calls :
          /\ calls[i].phone = calls[j].phone
          /\ calls[i].date = 23
          /\ calls[j].date = 24

\* C12: a valid POST /api/calls for a phone and date for which a record of the
\* same phone and calendar day exists is answered 409 and leaves the calls table
\* as it was: no record is created and none is changed.
C12_DuplicateRejected ==
    [][\A body \in InsertBodies :
         ( /\ ValidInsert(body)
           /\ HasCallOn(calls, body["phone"], body["date"])
           /\ postCall(body) )
         => /\ response'.status = 409
            /\ calls' = calls]_vars

\* C12 witness: a creation was rejected with 409 while the table holds the one
\* record it collided with.
C12_Rejected ==
    /\ response.status = 409
    /\ Len(calls) = 1

\* A response of POST /api/calls/import that carries the results of the loop.
IsImportResponse(r) == "success" \in DOMAIN r

\* C13: with N >= 1 agents in list order, the k-th record created by an import
\* (counting from 0 and counting only the rows created) is assigned agent
\* number k mod N.
C13_RoundRobin ==
    [][( IsImportResponse(response') /\ Len(agents) >= 1 )
       => \A k \in 1 .. (Len(calls') - Len(calls)) :
             calls'[Len(calls) + k].agentId
                = agents[((k - 1) % Len(agents)) + 1]]_vars

\* C13 witness: an import created three records for two agents, the third one
\* assigned to the first agent again.
C13_Rotated ==
    /\ IsImportResponse(response)
    /\ Len(calls) = 3
    /\ [i \in 1..3 |-> calls[i].agentId] = << "u1", "u2", "u1" >>

\* The rows of a file that the loop reports as errors: a required column is
\* empty, or the insert fails.
ErrorRow(row) ==
    \/ row.name = "" \/ row.phone = "" \/ row.order = ""
    \/ row.qty /= "1"

\* C14: for every imported file, success + duplicates + number of errors is the
\* number of rows, success is the number of records created, the errors carry
\* the 1-based indexes of their rows in file order; and three valid rows, a
\* duplicate and a row without phone give success 3, duplicates 1 and one error
\* with row 5.
C14_EveryRowCounted ==
    /\ [](/\ \A csv \in CsvFiles :
              parseErrors(csv) = {} =>
                \A out \in { importRows(csv, 1, calls, 0, NoResults) } :
                   LET r == out.results IN
                   /\ r.success + r.duplicates + Len(r.errors) = Len(csv)
                   /\ r.success = Len(out.table) - Len(calls)
                   /\ \A j \in DOMAIN r.errors :
                         /\ r.errors[j] \in DOMAIN csv
                         /\ ErrorRow(csv[r.errors[j]])
                         /\ j > 1 => r.errors[j - 1] < r.errors[j]
           /\ calls = <<>>
                => importRows(ScenarioFile, 1, calls, 0, NoResults).results
                      = [success |-> 3, errors |-> << 5 >>, duplicates |-> 1])
    /\ [][IsImportResponse(response')
             => response'.success = Len(calls') - Len(calls)]_vars

\* C14 witness: the response to the import of the scenario file.
C14_ScenarioImported ==
    /\ response = [status |-> 200, success |-> 3, errors |-> << 5 >>,
                   duplicates |-> 1]
    /\ Len(calls) = 3

\* A row that has its required columns and can be written.
ImportableRow(row) ==
    /\ row.name /= "" /\ row.phone /= "" /\ row.order /= ""
    /\ row.qty = "1"

\* C15: for every file, every row that is valid leaves a record of its phone and
\* day in the calls table (created by the import unless it was a duplicate),
\* whatever the other rows of the file are.
C15_ValidRowsCreated ==
    [][\A csv \in CsvFiles :
         importCalls(csv)
         => \A i \in DOMAIN csv :
               ImportableRow(csv[i])
               => HasCallOn(calls', csv[i].phone, csv[i].date)]_vars

\* The outcome of row j of a file: what the loop adds to the results and to the
\* table when it processes the row after the rows before it.
RowOutcome(csv, j) ==
    LET before == importRows(SubSeq(csv, 1, j - 1), 1, calls, 0, NoResults)
        after == importRows(SubSeq(csv, 1, j), 1, calls, 0, NoResults)
    IN IF Len(after.table) > Len(before.table) THEN "success"
       ELSE IF after.results.duplicates > before.results.duplicates THEN "duplicate"
       ELSE "error"

SamePhoneAndDay(csv, i, j) ==
    /\ csv[i].phone /= ""
    /\ csv[i].phone = csv[j].phone
    /\ SameDay(csv[i].date, csv[j].date)

\* C16 (as stated): of two rows of a batch with the same phone and calendar day
\* at most one is admitted and the other is counted as a duplicate.
C16_OtherIsDuplicate ==
    \A csv \in CsvFiles :
        parseErrors(csv) = {} =>
          \A i, j \in DOMAIN csv :
             ( i < j /\ SamePhoneAndDay(csv, i, j) )
             => /\ ~( RowOutcome(csv, i) = "success" /\ RowOutcome(csv, j) = "success" )
                /\ "duplicate" \in { RowOutcome(csv, i), RowOutcome(csv, j) }

\* C16 (amended): of two rows of a batch with the same phone and calendar day at
\* most one is admitted; when the earlier row is valid and can be written, the
\* later one is counted as a duplicate if it is valid and as an error if not.
C16_AtMostOneAdmitted ==
    \A csv \in CsvFiles :
        parseErrors(csv) = {} =>
          \A i, j \in DOMAIN csv :
             ( i < j /\ SamePhoneAndDay(csv, i, j) )
             => /\ ~( RowOutcome(csv, i) = "success" /\ RowOutcome(csv, j) = "success" )
                /\ ImportableRow(csv[i])
                     => RowOutcome(csv, j)
                          = IF csv[j].name = "" \/ csv[j].order = ""
                            THEN "error" ELSE "duplicate"

\* C16 witness: a batch of two rows of one phone and day was imported into an
\* empty table: one record, one duplicate.
C16_SecondSkipped ==
    /\ IsImportResponse(response)
    /\ response.success = 1
    /\ response.duplicates = 1
    /\ response.errors = <<>>
    /\ Len(calls) = 1

\* C17: a record created by an import is assigned only to a user that is an
\* active agent at the time of the import, and to no agent when no user has the
\* role agent.
C17_OnlyActiveAgents ==
    [][IsImportResponse(response')
       => \A k \in (Len(calls) + 1) .. Len(calls') :
             LET a == calls'[k].agentId IN
             /\ a /= NULL => ( users[a].role = "agent" /\ users[a].isActive )
             /\ (\A u \in Users : users[u].role /= "agent") => a = NULL]_vars

\* The responses of GET /api/dashboard/stats and of GET
\* /api/dashboard/agent-performance; no other route answers with these fields.
IsStatsResponse(r) == "conversionRate" \in DOMAIN r

IsPerformanceResponse(r) == "performance" \in DOMAIN r

\* r hundredths is a hundredth nearest to the quotient num / den.
NearestHundredth(r, num, den) ==
    /\ 2 * (r * den - 100 * num) <= den
    /\ 2 * (100 * num - r * den) <= den

\* C18: the conversion rate of the dashboard is upsells / total calls x 100
\* rounded to 2 decimal places and 0 when the total call count is 0; 10 calls
\* and 3 upsells give 30.00.  The rate of an agent's performance entry is the
\* same function of the entry's upsellsClosed and callsHandled.
C18_ConversionRate ==
    [][/\ IsStatsResponse(response') =>
               LET t == response'.totalCallsToday
                   u == response'.successfulUpsells
                   r == response'.conversionRate
               IN /\ t = 0 => r = 0
                  /\ t > 0 => NearestHundredth(r, 100 * u, t)
                  /\ ( t = 10 /\ u = 3 ) => r = 3000
       /\ IsPerformanceResponse(response') =>
             \A a \in DOMAIN response'.performance :
                LET e == response'.performance[a]
                IN /\ e.callsHandled = 0 => e.conversionRate = 0
                   /\ e.callsHandled > 0
                        => NearestHundredth(e.conversionRate, 100 * e.upsellsClosed,
                                            e.callsHandled)]_vars

\* C18 witness: the dashboard of a day with 10 calls and 3 upsells reports 30.00.
C18_ThirtyPercent ==
    /\ response.status = 200
    /\ "conversionRate" \in DOMAIN response
    /\ response.totalCallsToday = 10
    /\ response.successfulUpsells = 3
    /\ response.conversionRate = 3000

\* C19: agent performance lists exactly the active users of role agent, and the
\* callsHandled of each is the number of call records assigned to that agent,
\* however many transactions are attached to each call.
C19_CallsHandled ==
    [][( "performance" \in DOMAIN response' /\ getPerformance ) =>
         /\ DOMAIN response'.performance
               = { u \in Users : users[u].role = "agent" /\ users[u].isActive }
         /\ \A a \in DOMAIN response'.performance :
               response'.performance[a].callsHandled = Cardinality(CallsOf(a))]_vars

\* C20: POST /api/calls and PUT /api/calls/:id with an invalid body answer 400,
\* PUT /api/calls/:id and POST /api/calls/:id/assign with an unknown id answer
\* 404, and in each of these cases the calls table stays as it was.
C20_ErrorsChangeNothing ==
    [][/\ \A body \in InsertBodies :
             ( ~ValidInsert(body) /\ postCall(body) )
             => ( response'.status = 400 /\ calls' = calls )
       /\ \A id \in CallIds, body \in UpdateBodies :
             ( ~ValidCallUpdate(body) /\ putCall(id, body) )
             => ( response'.status = 400 /\ calls' = calls )
       /\ \A id \in CallIds, body \in UpdateBodies :
             ( id \notin DOMAIN calls /\ ValidCallUpdate(body) /\ putCall(id, body) )
             => ( response'.status = 404 /\ calls' = calls )
       /\ \A id \in CallIds, agentId \in Solo :
             ( id \notin DOMAIN calls /\ assignCall(id, agentId) )
             => ( response'.status = 404 /\ calls' = calls )]_vars

\* C20 witness: an unknown id was answered 404 over a table of two records, one
\* of them updated and assigned before.
C20_NotFound ==
    /\ response.status = 404
    /\ Len(calls) = 2
    /\ \E i \in DOMAIN calls : calls[i].status = "called" /\ calls[i].agentId = "u1"

\* The statuses that the exit transitions write.
ExitStatuses == {"called", "completed", "unattended", "callback"}

\* C21: every exit transition (an update of an existing call to an exit status)
\* appends a Call History entry for that call, and the entries already in the
\* history are never changed or removed.
C21_HistoryAppended ==
    [][/\ \A id \in CallIds, body \in UpdateBodies :
             ( /\ id \in DOMAIN calls
               /\ ValidCallUpdate(body)
               /\ "status" \in DOMAIN body
               /\ body["status"] \in ExitStatuses
               /\ putCall(id, body) )
             => \E k \in DOMAIN callHistory' :
                   /\ k > Len(callHistory)
                   /\ callHistory'[k].callId = id
       /\ \A k \in DOMAIN callHistory :
             k \in DOMAIN callHistory' /\ callHistory'[k] = callHistory[k]]_vars

\* The client is logged in as a user that has the role admin.
AdminLogin(c) ==
    /\ loggedIn[c] \in DOMAIN users
    /\ users[loggedIn[c]].role = "admin"

\* A request of client c to one of the admin-only routes.
AdminRequest(c) ==
    \/ \E body \in ProductBodies : adminRoute(c, postProduct(body))
    \/ \E id \in ProductIds : adminRoute(c, putProduct(id, [price |-> 100]))
    \/ \E csv \in CsvFiles : adminRoute(c, importCalls(csv))
    \/ adminRoute(c, getAgents)
    \/ \E u \in Usernames, pw \in Passwords : adminRoute(c, postAgent(u, pw))
    \/ \E req \in AgentRequests : adminRoute(c, putAgent(req[1], req[2]))

\* C22: a request to an admin-only route (create or update product, CSV import,
\* list, create or update agents) from a client that is not logged in as an
\* admin is rejected and changes no product, call or user record.
C22_AdminOnly ==
    [][\A c \in Clients :
         ( ~AdminLogin(c) /\ AdminRequest(c) )
         => /\ response'.status \in {401, 403}
            /\ UNCHANGED <<productRows, calls, users>>]_vars

\* C22 witness: a client logged in as the agent was refused with 403 while
\* the other client is logged in as the admin; the tables are as installed.
C22_AgentRefused ==
    /\ response.status = 403
    /\ \E c, d \in Clients : loggedIn[c] = "u2" /\ loggedIn[d] = "u1"
    /\ users = AuthUsers
    /\ productRows = products
    /\ calls = <<>>

\* What the login flow promises client c for GET /api/user and for a route
\* behind requireAuth.
UserAnswered(c) ==
    /\ getUser(c)
    /\ IF loggedIn[c] = NULL THEN response'.status = 401
       ELSE response' = [status |-> 200, user |-> loggedIn[c]]

ProductsAnswered(c) ==
    /\ authRoute(c, getProducts)
    /\ loggedIn[c] /= NULL => response'.status = 200

\* C23: after a successful POST /api/login, GET /api/user from the same client
\* returns that user and the routes behind requireAuth accept its requests;
\* GET /api/user from a client that has not logged in returns 401.  (A step
\* does not tell which client sent the request: the answer has to be right
\* for one of the clients that can have sent it.)
C23_LoginFlow ==
    [][/\ (\E c \in Clients : getUser(c)) => (\E c \in Clients : UserAnswered(c))
       /\ (\E c \in Clients : authRoute(c, getProducts))
            => (\E c \in Clients : ProductsAnswered(c))]_vars

\* A press of one of the exit buttons of the modal.
ExitClickStep(u) ==
    handleEndCallClick(u) \/ handleCallbackClick(u) \/ handleUnattendedClick(u)

\* C24: the press of an exit button (End Call, Callback, Unattended) stops the
\* timer and captures its value, and the callDuration that the save of the
\* remarks writes is the value captured at the press, whatever happens between
\* the press and the save.
C24_DurationAtPress ==
    [][\A u \in Users :
         /\ ExitClickStep(u)
              => ( ~isTimerRunning'[u] /\ capturedDuration'[u] = Some(callTimer[u]) )
         /\ ( SaveStep(u) /\ txn' /= txn )
              => txn'[selectedCall[u].id].callDuration = capturedDuration[u]]_vars

\* C25: opening a record that is in_progress with callStartedAt set puts the
\* timer at the seconds elapsed since callStartedAt and leaves it running,
\* whatever the record went through before.
C25_ResumedTimer ==
    [][\A u \in Users, id \in TxnIds :
         ( /\ handleCallClick(u, id)
           /\ cache[u][id].status = "in_progress"
           /\ Present(cache[u][id].callStartedAt) )
         => /\ callTimer'[u] = now - cache[u][id].callStartedAt[1]
            /\ isTimerRunning'[u]]_vars

\* The calls in the scope of an agent (every call for no agent) whose date lies
\* on the calendar day of the clock: from midnight up to, not including, the
\* next midnight.
CallsOnDay(agentId, clock) ==
    { i \in DOMAIN calls :
        /\ SameDay(calls[i].date, clock)
        /\ agentId /= NULL => calls[i].agentId = agentId }

\* C26: the total call count of the daily dashboard is the number of calls
\* dated from midnight of the day up to, not including, the next midnight, so
\* that a call (also one dated exactly at midnight) counts for one day only.
C26_DayWindow ==
    [][\A user \in Users, queryAgentId \in StatQueries, clock \in StatClocks :
         ( IsStatsResponse(response') /\ getStats(user, queryAgentId, clock) )
         => response'.totalCallsToday
               = Cardinality(CallsOnDay(statsAgentId(user, queryAgentId), clock))]_vars

\* C28: on every stored record that carries both stamps, callEndedAt is not
\* earlier than callStartedAt.
C28_EndAfterStart ==
    \A id \in TxnIds :
        ( Present(txn[id].callStartedAt) /\ Present(txn[id].callEndedAt) )
        => txn[id].callEndedAt[1] >= txn[id].callStartedAt[1]

\* The answer of GET /api/dashboard/stats at a clock for the scope of one agent.
StatsAnswer(agentId, clock) == [status |-> 200] @@ getDashboardStats(agentId, clock)

\* C29: the statistics that GET /api/dashboard/stats answers to a user of role
\* agent are those of the agent's own id, and they are the ones the same
\* request would get with any other agentId in its query.
C29_OwnStatsOnly ==
    [][\A user \in Users, queryAgentId \in StatQueries, clock \in StatClocks :
         ( /\ IsStatsResponse(response')
           /\ users[user].role = "agent"
           /\ getStats(user, queryAgentId, clock) )
         => /\ response' = StatsAnswer(user, clock)
            /\ \A other \in StatQueries :
                  response' = StatsAnswer(statsAgentId(user, other), clock)]_vars

\* An answer with the statistics of agent u1 that are neither those of agent
\* u2 nor those of all agents, while both users have the role agent: what u1
\* gets when it asks for the statistics of u2 or of everybody.
C29_AgentGotOwn ==
    /\ IsStatsResponse(response)
    /\ \A u \in Users : users[u].role = "agent"
    /\ \E clock \in StatClocks :
          /\ response = StatsAnswer("u1", clock)
          /\ response /= StatsAnswer("u2", clock)
          /\ response /= StatsAnswer(NULL, clock)
          /\ response.totalCallsToday > 0

\* C27: whatever the interleaving of the POST /api/calls requests and the CSV
\* imports in progress, no two rows of the calls table have the same phone
\* and dates on the same calendar day.
C27_NoDuplicateCalls ==
    \A i, j \in DOMAIN calls :
        ( i /= j /\ calls[i].phone = calls[j].phone )
        => ~SameDay(calls[i].date, calls[j].date)

\* C30: once the agent has pressed End Call, Callback or Unattended on an
\* actionable call (the remarks are asked for), the open modal offers the
\* button that saves the remarks and invokes the handler of the pressed exit.
C30_SaveOffered ==
    \A u \in Users :
        ( showCustomerModal[u] /\ showRemarksInput[u] )
        => "handleSaveRemarks" \in PresentButtons(u)

====
